---- MODULE Spec2Model ----
(***************************************************************************)
(* Model of src/templates/doc.tsx: the DocTemplate component, its          *)
(* useEffect (click interception on the table-of-contents anchors and the  *)
(* throttled active-heading tracking) and the prev/next row layout.        *)
(*                                                                         *)
(* Strings are sequences of character codes, so that indexOf, slice and    *)
(* decodeURIComponent are computed rather than assumed.  An optional value *)
(* (undefined | v) is the empty sequence or the one-element sequence <<v>>.*)
(***************************************************************************)
EXTENDS Integers, Sequences, FiniteSets, TLC

\* ------------------------------------------------------------- bounds
\* number of <a href> elements under the TOC container
NumAnchors == 2
\* number of times the effect may run (first render + re-renders)
MaxRenders == 2
\* the clock advances in steps of TickMs up to MaxTime (milliseconds)
TickMs == 50
MaxTime == 250
\* entries the session history may hold
MaxHistory == 2
\* window.innerHeight of the modelled viewport
InnerHeight == 600

\* ---------------------------------------------------- program constants
\* fixed header clearance subtracted from the click target (line 218)
HeaderClearance == 102
\* _.throttle(..., 100) (line 243)
ThrottleWait == 100

\* ------------------------------------------------------------- strings
PCT == <<37>>
HASH == <<35>>
\* "h:"  "/d"  "?q"
Origin == <<104, 58>>
Pathname == <<47, 100>>
Search == <<63, 113>>

\* String.prototype.indexOf(ch) for a one-character needle, 0-based, -1 when absent
RECURSIVE IndexFrom(_, _, _)
IndexFrom(s, ch, k) ==
    IF k > Len(s) THEN 0 - 1
    ELSE IF s[k] = ch THEN k - 1
    ELSE IndexFrom(s, ch, k + 1)

IndexOf(s, ch) == IndexFrom(s, ch, 1)

\* String.prototype.slice(start) for 0 <= start
Slice(s, start) == IF start >= Len(s) THEN <<>> ELSE SubSeq(s, start + 1, Len(s))

\* value of a hexadecimal digit character, -1 for any other character
HexVal(c) ==
    IF c >= 48 /\ c <= 57 THEN c - 48
    ELSE IF c >= 65 /\ c <= 70 THEN c - 55
    ELSE IF c >= 97 /\ c <= 102 THEN c - 87
    ELSE 0 - 1

\* the byte written %XY at 1-based position k of s, -1 when s holds no such escape there
ByteAt(s, k) ==
    IF k + 2 > Len(s) THEN 0 - 1
    ELSE IF s[k] # PCT[1] THEN 0 - 1
    ELSE IF HexVal(s[k + 1]) < 0 \/ HexVal(s[k + 2]) < 0 THEN 0 - 1
    ELSE 16 * HexVal(s[k + 1]) + HexVal(s[k + 2])

\* number of octets of the UTF-8 sequence that starts with byte b, 0 when b cannot start one
Utf8Len(b) ==
    IF b < 128 THEN 1
    ELSE IF b < 192 THEN 0
    ELSE IF b < 224 THEN 2
    ELSE IF b < 240 THEN 3
    ELSE IF b < 248 THEN 4
    ELSE 0

\* a continuation octet 10xxxxxx
IsCont(b) == b >= 128 /\ b < 192

\* the code point of the UTF-8 sequence of octets b0 (leading), b1, b2, b3, of which the
\* first n count; -1 when they are no valid UTF-8 encoding of a code point
CodePointOf(n, b0, b1, b2, b3) ==
    IF n = 1 THEN b0
    ELSE IF n = 2
    THEN IF IsCont(b1) /\ (b0 - 192) * 64 + (b1 - 128) >= 128
         THEN (b0 - 192) * 64 + (b1 - 128) ELSE 0 - 1
    ELSE IF n = 3
    THEN IF /\ IsCont(b1) /\ IsCont(b2)
            /\ (b0 - 224) * 4096 + (b1 - 128) * 64 + (b2 - 128) >= 2048
            /\ ~(/\ (b0 - 224) * 4096 + (b1 - 128) * 64 + (b2 - 128) >= 55296
                 /\ (b0 - 224) * 4096 + (b1 - 128) * 64 + (b2 - 128) <= 57343)
         THEN (b0 - 224) * 4096 + (b1 - 128) * 64 + (b2 - 128) ELSE 0 - 1
    ELSE IF /\ IsCont(b1) /\ IsCont(b2) /\ IsCont(b3)
            /\ (b0 - 240) * 262144 + (b1 - 128) * 4096 + (b2 - 128) * 64 + (b3 - 128) >= 65536
            /\ (b0 - 240) * 262144 + (b1 - 128) * 4096 + (b2 - 128) * 64 + (b3 - 128) <= 1114111
         THEN (b0 - 240) * 262144 + (b1 - 128) * 4096 + (b2 - 128) * 64 + (b3 - 128)
         ELSE 0 - 1

\* the code point escaped at position k whose leading octet is b (-1: no escape there),
\* -1 when the escapes from k on are no valid UTF-8 encoding of a code point
CodePoint(s, k, b) ==
    IF b < 0 THEN 0 - 1
    ELSE IF Utf8Len(b) = 0 THEN 0 - 1
    ELSE CodePointOf(Utf8Len(b), b, ByteAt(s, k + 3), ByteAt(s, k + 6), ByteAt(s, k + 9))

\* decodeURIComponent: [ok |-> TRUE, str |-> decoded] or, when it throws URIError,
\* [ok |-> FALSE, str |-> <<>>]
RECURSIVE DecodeFrom(_, _, _)
\* the escape at position k, whose leading octet is b and whose code point is cp
DecodeEscape(s, k, acc, b, cp) ==
    IF cp < 0 THEN [ok |-> FALSE, str |-> <<>>]
    ELSE DecodeFrom(s, k + 3 * Utf8Len(b), Append(acc, cp))

DecodeAt(s, k, acc, b) == DecodeEscape(s, k, acc, b, CodePoint(s, k, b))

DecodeFrom(s, k, acc) ==
    IF k > Len(s) THEN [ok |-> TRUE, str |-> acc]
    ELSE IF s[k] # PCT[1] THEN DecodeFrom(s, k + 1, Append(acc, s[k]))
    ELSE DecodeAt(s, k, acc, ByteAt(s, k))

decodeURIComponent(s) == DecodeFrom(s, 1, <<>>)

\* ------------------------------------------------------------ document
\* ids of the elements the page's content may hold: "a" and the one-character id U+4E2D
IdA == <<97>>
IdZh == <<20013>>
Ids == {IdA, IdZh}

\* top of an element relative to the document
ElY(id) == IF id = IdA THEN 200 ELSE 500

\* the fragments a TOC link may carry: "a", "%E4%B8%AD" (U+4E2D escaped) and the lone "%"
Fragments == {IdA, <<37, 69, 52, 37, 66, 56, 37, 65, 68>>, PCT}

\* HTMLAnchorElement.href of a link to fragment f of the current page
HrefOf(f) == Origin \o Pathname \o Search \o HASH \o f

\* the values window.scrollY takes
ScrollPositions == {0, 100, 400}

\* an optional slug: undefined, the empty string, or a path
Slugs == {<<>>, <<"">>, <<"/s">>}

Anchors == 1..NumAnchors
Instances == 1..MaxRenders

VARIABLES
    prevSlug, nextSlug,  \* fields.prevSlug, fields.nextSlug of the rendered page
    view,                \* what the last render produced for the prev/next row
    mounted,             \* tocEl.current # null
    effectPending,       \* a render was committed and its effect has not run yet
    hrefs,               \* href of each anchor under the TOC container, in document order
    active,              \* which anchors carry the class 'active'
    doc,                 \* ids that document.getElementById resolves
    scrollY,             \* window.scrollY
    history, histIdx,    \* the session history and the current entry
    nInst,               \* effect runs so far; run i owns closures onClick_i, onScroll_i
    thr,                 \* the state of each run's throttled onScroll
    scrollListeners,     \* runs whose onScroll is registered on window
    clickListeners,      \* per anchor, the runs whose onClick is registered on it
    cleanup,             \* the run whose cleanup function React holds (optional)
    now,                 \* Date.now()
    trig,                \* per run, the recomputations scroll events triggered: when the
                         \* triggering event was dispatched (call) and when func ran (at)
    ev                   \* what the last step did

vars == <<prevSlug, nextSlug, view, mounted, effectPending, hrefs, active, doc, scrollY,
          history, histIdx, nInst, thr, scrollListeners, clickListeners, cleanup, now,
          trig, ev>>

\* ------------------------------------------------------- render (254-303)
\* JavaScript truthiness of an optional string
Truthy(s) == s # <<>> /\ s # <<"">>

\* justifyContent without the second if (258-260)
justifyContentNoFlexEnd(prev, next) ==
    IF Truthy(prev) /\ Truthy(next) THEN "space-between" ELSE "flex-start"

justifyContent(prev, next) ==
    IF ~Truthy(prev) /\ Truthy(next) THEN "flex-end"
    ELSE IF Truthy(prev) /\ Truthy(next) THEN "space-between"
    ELSE "flex-start"

\* the prev/next row of the returned tree
DocNav(prev, next) ==
    [rendered |-> Truthy(prev) \/ Truthy(next),
     justifyContent |-> justifyContent(prev, next),
     prevItem |-> Truthy(prev),
     nextItem |-> Truthy(next)]

\* ------------------------------------------------- _.throttle (227, 243)
\* _.throttle(func, wait) is debounce(func, wait, {leading, trailing, maxWait: wait})
NewThrottle == [lastArgs |-> <<>>, lastCallTime |-> <<>>, lastInvokeTime |-> 0, timerId |-> <<>>]

shouldInvoke(t, time) ==
    \/ t.lastCallTime = <<>>
    \/ time - t.lastCallTime[1] >= ThrottleWait
    \/ time - t.lastCallTime[1] < 0
    \/ time - t.lastInvokeTime >= ThrottleWait

nativeMin(x, y) == IF x < y THEN x ELSE y

remainingWait(t, time) ==
    nativeMin(ThrottleWait - (time - t.lastCallTime[1]),
              ThrottleWait - (time - t.lastInvokeTime))

\* result: the new throttle state and, when func is applied, the arguments it is applied to
invokeFunc(t, time) ==
    [t |-> [t EXCEPT !.lastArgs = <<>>, !.lastInvokeTime = time], invoke |-> t.lastArgs]

\* leadingEdge of a throttle created with {leading: false}
leadingEdgeTrailingOnly(t, time) ==
    [t |-> [t EXCEPT !.lastInvokeTime = time, !.timerId = <<time + ThrottleWait>>],
     invoke |-> <<>>]

leadingEdge(t, time) ==
    invokeFunc([t EXCEPT !.lastInvokeTime = time, !.timerId = <<time + ThrottleWait>>], time)

trailingEdge(t, time) ==
    IF t.lastArgs # <<>> THEN invokeFunc([t EXCEPT !.timerId = <<>>], time)
    ELSE [t |-> [t EXCEPT !.timerId = <<>>], invoke |-> <<>>]

timerExpired(t, time) ==
    IF shouldInvoke(t, time) THEN trailingEdge(t, time)
    ELSE [t |-> [t EXCEPT !.timerId = <<time + remainingWait(t, time)>>], invoke |-> <<>>]

\* a call of func registered without _.throttle: every call applies it
debouncedUnthrottled(t, time, args) ==
    [t |-> [t EXCEPT !.lastCallTime = <<time>>, !.lastInvokeTime = time],
     invoke |-> <<args>>]

\* the rest of a call of the throttled function at `time`, once lastArgs and
\* lastCallTime are set in t and isInvoking has been decided
debouncedCall(t, time, isInvoking) ==
    IF isInvoking /\ t.timerId = <<>> THEN leadingEdge(t, time)
    ELSE IF isInvoking
    THEN invokeFunc([t EXCEPT !.timerId = <<time + ThrottleWait>>], time)
    ELSE IF t.timerId = <<>>
    THEN [t |-> [t EXCEPT !.timerId = <<time + ThrottleWait>>], invoke |-> <<>>]
    ELSE [t |-> t, invoke |-> <<>>]

\* a call onScroll(args) of the throttled function at `time`
debounced(t, time, args) ==
    debouncedCall([t EXCEPT !.lastArgs = <<args>>, !.lastCallTime = <<time>>], time,
                  shouldInvoke(t, time))

\* ------------------------------------------- the throttled function (227-243)
\* id the anchor's href addresses: decodeURIComponent(href.slice(href.indexOf('#') + 1))
TargetOf(href) == decodeURIComponent(Slice(href, IndexOf(href, HASH[1]) + 1))

\* el.getBoundingClientRect().top at scroll position y
TopOf(id, y) == ElY(id) - y

\* top < window.innerHeight / 4, without rounding the quotient
PastQuarter(top) == 4 * top < InnerHeight

\* the _.forEach over the anchors from anchor i on at scroll position y, then line 242
RECURSIVE forEachAnchor(_, _, _, _)
\* the callback of the _.forEach (231-241) on anchor i, whose href addresses id
forEachCallback(i, act, activeAnchor, y, id) ==
    IF ~id.ok THEN [active |-> act, threw |-> TRUE, marked |-> 0, recomputed |-> TRUE]
    ELSE IF id.str \notin doc THEN forEachAnchor(i + 1, act, activeAnchor, y)
    ELSE IF PastQuarter(TopOf(id.str, y))
    THEN forEachAnchor(i + 1, [act EXCEPT ![i] = FALSE], i, y)
    ELSE forEachAnchor(i + 1, [act EXCEPT ![i] = FALSE], activeAnchor, y)

forEachAnchor(i, act, activeAnchor, y) ==
    IF i > Len(hrefs)
    THEN [active |-> IF activeAnchor # 0 THEN [act EXCEPT ![activeAnchor] = TRUE] ELSE act,
          threw |-> FALSE, marked |-> activeAnchor, recomputed |-> TRUE]
    ELSE forEachCallback(i, act, activeAnchor, y, TargetOf(hrefs[i]))

\* one run of the function passed to _.throttle at scroll position y, the TOC container
\* being present or not
onScrollFunc(act, tocPresent, y) ==
    IF ~tocPresent
    THEN [active |-> act, threw |-> FALSE, marked |-> 0, recomputed |-> FALSE]
    ELSE forEachAnchor(1, act, 0, y)

\* --------------------------------------------------- onClick (209-222)
\* lines 214-221 of onClick with line 216 moved below line 220: replaceState runs before
\* the target is known to exist
onClickReplacesFirst(hash, id) ==
    IF ~id.ok
    THEN [prevented |-> TRUE, threw |-> TRUE, replaceState |-> <<>>, scrollTo |-> <<>>]
    ELSE [prevented |-> TRUE, threw |-> FALSE,
          replaceState |-> <<Pathname \o Search \o HASH \o hash>>,
          scrollTo |-> IF id.str \notin doc THEN <<>>
                       ELSE <<scrollY + TopOf(id.str, scrollY) - HeaderClearance>>]

\* onClick without line 210: the default navigation is not prevented
onClickDefaultNotPrevented(hash, id) ==
    IF ~id.ok
    THEN [prevented |-> FALSE, threw |-> TRUE, replaceState |-> <<>>, scrollTo |-> <<>>]
    ELSE IF id.str \notin doc
    THEN [prevented |-> FALSE, threw |-> FALSE, replaceState |-> <<>>, scrollTo |-> <<>>]
    ELSE [prevented |-> FALSE, threw |-> FALSE,
          replaceState |-> <<Pathname \o Search \o HASH \o hash>>,
          scrollTo |-> <<scrollY + TopOf(id.str, scrollY) - HeaderClearance>>]

\* what onClick does from line 210 on, hash being the fragment of the clicked anchor's
\* href and id its decoding: whether the default was prevented, whether it threw, and
\* the URL it hands to replaceState and the offset it hands to scrollTo (each optional)
onClickBody(hash, id) ==
    IF ~id.ok
    THEN [prevented |-> TRUE, threw |-> TRUE, replaceState |-> <<>>, scrollTo |-> <<>>]
    ELSE IF id.str \notin doc
    THEN [prevented |-> TRUE, threw |-> FALSE, replaceState |-> <<>>, scrollTo |-> <<>>]
    ELSE [prevented |-> TRUE, threw |-> FALSE,
          replaceState |-> <<Pathname \o Search \o HASH \o hash>>,
          scrollTo |-> <<scrollY + TopOf(id.str, scrollY) - HeaderClearance>>]

\* the fragment of an href: href.slice(href.indexOf('#') + 1)
HashOf(href) == Slice(href, IndexOf(href, HASH[1]) + 1)

\* one run of onClick on anchor a
onClick(a) == onClickBody(HashOf(hrefs[a]), decodeURIComponent(HashOf(hrefs[a])))

\* ------------------------------------------------------- observations
\* what a step did: the listeners it ran, the exceptions that left them, the runs of the
\* throttled function (with the arguments of each), the anchor the last run marked,
\* and the history and scroll requests of a click
Ev(op) ==
    [op |-> op, inst |-> 0, anchor |-> 0, handlers |-> 0, threw |-> 0, invoked |-> <<>>,
     recomputed |-> 0, marked |-> 0, prevented |-> FALSE, replaced |-> 0, pushed |-> 0,
     scrollTo |-> <<>>]

\* the part of the state the throttled function and its wrapper change, with what they did
World == [thr |-> thr, active |-> active, trig |-> trig,
          threw |-> 0, invoked |-> <<>>, recomputed |-> 0, marked |-> 0]

\* run i's throttle took the step res (of debounced or timerExpired) at scroll position y:
\* its state is stored and, when res applies func, func runs
Ran(w, i, res, f) ==
    [w EXCEPT !.thr[i] = res.t,
              !.active = f.active,
              !.threw = @ + (IF f.threw THEN 1 ELSE 0),
              !.invoked = Append(@, res.invoke[1]),
              !.recomputed = @ + (IF f.recomputed THEN 1 ELSE 0),
              !.marked = f.marked,
              !.trig[i] = IF f.recomputed /\ res.invoke[1] # <<>>
                          THEN Append(@, [call |-> res.t.lastCallTime[1], at |-> now])
                          ELSE @]

Applied(w, i, res, y) ==
    IF res.invoke = <<>> THEN [w EXCEPT !.thr[i] = res.t]
    ELSE Ran(w, i, res, onScrollFunc(w.active, mounted, y))

\* a call of run i's onScroll with arguments args
onScroll(w, i, args, y) == Applied(w, i, debounced(w.thr[i], now, args), y)

Min(S) == CHOOSE x \in S : \A z \in S : x <= z

\* window dispatches a scroll event to the listeners S in registration order; an exception
\* leaving one listener is reported and the next listener still runs
RECURSIVE DispatchScroll(_, _, _)
DispatchScroll(S, w, y) ==
    IF S = {} THEN w
    ELSE DispatchScroll(S \ {Min(S)}, onScroll(w, Min(S), <<"scroll">>, y), y)

\* ------------------------------------------------------------- actions
\* the state once React has committed the first render of the page with sibling fields
\* prev and next and TOC markup toc, before any effect has run
Mounted(prev, next, toc) ==
    /\ prevSlug = prev
    /\ nextSlug = next
    /\ view = DocNav(prev, next)
    /\ mounted = TRUE
    /\ effectPending = TRUE
    /\ hrefs = toc
    /\ active = [a \in Anchors |-> FALSE]
    /\ doc = Ids
    /\ scrollY = 0
    /\ history = <<Pathname \o Search>>
    /\ histIdx = 1
    /\ nInst = 0
    /\ thr = [i \in Instances |-> NewThrottle]
    /\ scrollListeners = {}
    /\ clickListeners = [a \in Anchors |-> {}]
    /\ cleanup = <<>>
    /\ now = 0
    /\ trig = [i \in Instances |-> <<>>]
    /\ ev = Ev("init")

\* every TOC of NumAnchors links over Fragments
Tocs == [Anchors -> {HrefOf(f) : f \in Fragments}]

\* the TOC whose links address, in order, the ids "a", U+4E2D, "a", ...
PlainToc ==
    [a \in Anchors |-> IF a % 2 = 1 THEN HrefOf(IdA)
                       ELSE HrefOf(<<37, 69, 52, 37, 66, 56, 37, 65, 68>>)]

Init == \E toc \in Tocs : Mounted(<<>>, <<"/s">>, toc)

\* the function the effect returned (246-251), of run c
Detach(c, listeners) ==
    [scroll |-> listeners.scroll \ {c},
     click |-> [a \in Anchors |-> listeners.click[a] \ {c}]]

\* the listeners after React has run the held cleanup, if it holds one
AfterCleanup ==
    IF cleanup = <<>> THEN [scroll |-> scrollListeners, click |-> clickListeners]
    ELSE Detach(cleanup[1], [scroll |-> scrollListeners, click |-> clickListeners])

\* React runs the effect of the last render (206-252): the previous run's cleanup, then
\* the effect body as run nInst + 1.  The component is mounted, so tocEl.current is set
\* and line 207 does not return.  When the immediate onScroll() of line 245 throws, the
\* effect returns no cleanup and React, finding no error boundary, unmounts the tree.
FlushEffects ==
    /\ mounted
    /\ effectPending
    /\ \E i \in {nInst + 1}, l \in {AfterCleanup} :
       \E w \in {onScroll([World EXCEPT !.thr[i] = NewThrottle], i, <<>>, scrollY)} :
           /\ nInst' = i
           /\ clickListeners' = [a \in Anchors |-> l.click[a] \cup {i}]
           /\ scrollListeners' = l.scroll \cup {i}
           /\ thr' = w.thr
           /\ active' = w.active
           /\ trig' = w.trig
           /\ cleanup' = IF w.threw > 0 THEN <<>> ELSE <<i>>
           /\ mounted' = (w.threw = 0)
           /\ ev' = [Ev("attach") EXCEPT !.inst = i, !.threw = w.threw, !.invoked = w.invoked,
                                         !.recomputed = w.recomputed, !.marked = w.marked]
    /\ effectPending' = FALSE
    /\ UNCHANGED <<prevSlug, nextSlug, view, hrefs, doc, scrollY, history, histIdx, now>>

\* the component function runs again with new sibling fields and React commits the result
Render(prev, next) ==
    /\ mounted
    /\ ~effectPending
    /\ nInst < MaxRenders
    /\ prevSlug' = prev
    /\ nextSlug' = next
    /\ view' = DocNav(prev, next)
    /\ effectPending' = TRUE
    /\ ev' = Ev("render")
    /\ UNCHANGED <<mounted, hrefs, active, doc, scrollY, history, histIdx, nInst, thr,
                   scrollListeners, clickListeners, cleanup, now, trig>>

\* React unmounts the component: the ref is cleared and the held cleanup runs
Unmount ==
    /\ mounted
    /\ ~effectPending
    /\ mounted' = FALSE
    /\ scrollListeners' = AfterCleanup.scroll
    /\ clickListeners' = AfterCleanup.click
    /\ cleanup' = <<>>
    /\ ev' = Ev("unmount")
    /\ UNCHANGED <<prevSlug, nextSlug, view, effectPending, hrefs, active, doc, scrollY,
                   history, histIdx, nInst, thr, now, trig>>

\* the window scrolls to y and dispatches a scroll event
Scroll(y) ==
    /\ y # scrollY
    /\ scrollY' = y
    /\ \E w \in {DispatchScroll(scrollListeners, World, y)} :
           /\ thr' = w.thr
           /\ active' = w.active
           /\ trig' = w.trig
           /\ ev' = [Ev("scroll") EXCEPT !.handlers = Cardinality(scrollListeners),
                                         !.threw = w.threw, !.invoked = w.invoked,
                                         !.recomputed = w.recomputed, !.marked = w.marked]
    /\ UNCHANGED <<prevSlug, nextSlug, view, mounted, effectPending, hrefs, doc, history,
                   histIdx, nInst, scrollListeners, clickListeners, cleanup, now>>

\* the timer of run i's throttle fires
TimerFire(i) ==
    /\ thr[i].timerId # <<>>
    /\ thr[i].timerId[1] <= now
    /\ \E w \in {Applied(World, i, timerExpired(thr[i], now), scrollY)} :
           /\ thr' = w.thr
           /\ active' = w.active
           /\ trig' = w.trig
           /\ ev' = [Ev("timer") EXCEPT !.inst = i, !.threw = w.threw, !.invoked = w.invoked,
                                        !.recomputed = w.recomputed, !.marked = w.marked]
    /\ UNCHANGED <<prevSlug, nextSlug, view, mounted, effectPending, hrefs, doc, scrollY,
                   history, histIdx, nInst, scrollListeners, clickListeners, cleanup, now>>

\* the user clicks anchor a: every onClick registered on it runs; when none prevented
\* the default, the browser navigates to the fragment and adds a history entry
Click(a) ==
    /\ mounted
    /\ clickListeners[a] # {} \/ Len(history) < MaxHistory
    /\ \E n \in {Cardinality(clickListeners[a])}, r \in {onClick(a)} :
       \E prevented \in {n > 0 /\ r.prevented}, replaces \in {n > 0 /\ r.replaceState # <<>>} :
       \E replaced \in {IF replaces THEN [history EXCEPT ![histIdx] = r.replaceState[1]]
                         ELSE history} :
           /\ history' = IF prevented THEN replaced
                         ELSE Append(SubSeq(replaced, 1, histIdx), Slice(hrefs[a], Len(Origin)))
           /\ histIdx' = IF prevented THEN histIdx ELSE histIdx + 1
           /\ ev' = [Ev("click") EXCEPT !.anchor = a, !.handlers = n,
                                        !.threw = IF n > 0 /\ r.threw THEN n ELSE 0,
                                        !.prevented = prevented,
                                        !.replaced = IF replaces THEN n ELSE 0,
                                        !.pushed = IF prevented THEN 0 ELSE 1,
                                        !.scrollTo = IF n > 0 /\ r.scrollTo # <<>>
                                                     THEN [k \in 1..n |-> r.scrollTo[1]]
                                                     ELSE <<>>]
    /\ UNCHANGED <<prevSlug, nextSlug, view, mounted, effectPending, hrefs, active, doc,
                   scrollY, nInst, thr, scrollListeners, clickListeners, cleanup, now, trig>>

\* the page's content changes: the element with this id leaves or enters the document
DomChange(id) ==
    /\ mounted
    /\ doc' = IF id \in doc THEN doc \ {id} ELSE doc \cup {id}
    /\ ev' = Ev("dom")
    /\ UNCHANGED <<prevSlug, nextSlug, view, mounted, effectPending, hrefs, active, scrollY,
                   history, histIdx, nInst, thr, scrollListeners, clickListeners, cleanup,
                   now, trig>>

\* d milliseconds pass
Tick(d) ==
    /\ now + d <= MaxTime
    /\ now' = now + d
    /\ ev' = Ev("tick")
    /\ UNCHANGED <<prevSlug, nextSlug, view, mounted, effectPending, hrefs, active, doc,
                   scrollY, history, histIdx, nInst, thr, scrollListeners, clickListeners,
                   cleanup, trig>>

\* a page with any TOC whose content changes while it stays mounted; the clock is read
\* at the start and MaxTime later
Next ==
    \/ FlushEffects
    \/ \E y \in ScrollPositions : Scroll(y)
    \/ \E i \in Instances : TimerFire(i)
    \/ \E a \in Anchors : Click(a)
    \/ \E id \in Ids : DomChange(id)
    \/ Tick(MaxTime)

Spec == Init /\ [][Next]_vars

\* the page with the plain TOC and an unchanging document, rendered again and unmounted,
\* the clock read every TickMs
InitTiming == Mounted(<<>>, <<"/s">>, PlainToc)

NextTiming ==
    \/ FlushEffects
    \/ Render(prevSlug, nextSlug)
    \/ Unmount
    \/ \E y \in ScrollPositions : Scroll(y)
    \/ \E i \in Instances : TimerFire(i)
    \/ Tick(TickMs)

SpecTiming == InitTiming /\ [][NextTiming]_vars

\* the page rendered and rendered again with any sibling fields
InitNav == \E prev \in Slugs, next \in Slugs : Mounted(prev, next, PlainToc)

NextNav ==
    \/ FlushEffects
    \/ \E prev \in Slugs, next \in Slugs : Render(prev, next)
    \/ Unmount
    \/ \E y \in ScrollPositions : Scroll(y)

SpecNav == InitNav /\ [][NextNav]_vars

\* -------------------------------------------------------------- claims
ActiveSet == {a \in Anchors : active[a]}

\* the id anchor a addresses decodes and is an element of the document
Resolves(a) == decodeURIComponent(Slice(hrefs[a], IndexOf(hrefs[a], HASH[1]) + 1)).ok
               /\ decodeURIComponent(Slice(hrefs[a], IndexOf(hrefs[a], HASH[1]) + 1)).str \in doc

\* the id anchor a addresses decodes and is no element of the document
Dangles(a) == decodeURIComponent(Slice(hrefs[a], IndexOf(hrefs[a], HASH[1]) + 1)).ok
              /\ decodeURIComponent(Slice(hrefs[a], IndexOf(hrefs[a], HASH[1]) + 1)).str \notin doc

\* anchors whose heading lies above the first quarter line of the viewport
Qualifying ==
    {a \in Anchors :
        /\ Resolves(a)
        /\ 4 * (ElY(decodeURIComponent(Slice(hrefs[a], IndexOf(hrefs[a], HASH[1]) + 1)).str)
                - scrollY) < InnerHeight}

Max(S) == CHOOSE x \in S : \A z \in S : z <= x

\* C1: after any run of the throttled scroll handler at most one anchor is active,
\* whatever the anchors were before (unresolved ones and already active ones included).
C1_AtMostOneActive == ev.recomputed > 0 => Cardinality(ActiveSet) <= 1

\* C2: after a run of the scroll handler the active anchor is the last anchor in document
\* order whose resolved heading is above the quarter line, and none is active when no
\* anchor qualifies.
C2_ActiveIsLastQualifying ==
    ev.recomputed > 0 =>
        ActiveSet = IF Qualifying = {} THEN {} ELSE {Max(Qualifying)}

\* C3: a click on a TOC anchor whose decoded target id is not in the document scrolls
\* nothing, leaves the history as it was and throws nothing.
C3_DanglingClickIsNoOp ==
    [][(ev'.op = "click" /\ ev'.handlers > 0 /\ Dangles(ev'.anchor)) =>
         /\ history' = history
         /\ histIdx' = histIdx
         /\ ev'.replaced = 0 /\ ev'.pushed = 0
         /\ ev'.scrollTo = <<>>
         /\ ev'.threw = 0]_vars

C3_Witness ==
    /\ ev.op = "click" /\ ev.handlers > 0 /\ Dangles(ev.anchor)
    /\ ev.prevented

\* C4: a click on a TOC anchor with fragment F whose target exists replaces the current
\* history entry exactly once with path + search + '#' + F, pushes no entry and starts
\* at most one animated scroll.
C4_ValidClickReplacesOnce ==
    [][(ev'.op = "click" /\ ev'.handlers > 0 /\ Resolves(ev'.anchor)) =>
         /\ history' = [history EXCEPT ![histIdx] =
                Pathname \o Search \o HASH
                \o Slice(hrefs[ev'.anchor], IndexOf(hrefs[ev'.anchor], HASH[1]) + 1)]
         /\ histIdx' = histIdx
         /\ ev'.replaced = 1 /\ ev'.pushed = 0
         /\ Len(ev'.scrollTo) <= 1
         /\ ev'.threw = 0]_vars

C4_Witness ==
    /\ ev.op = "click" /\ ev.handlers > 0 /\ Resolves(ev.anchor)
    /\ ev.replaced = 1
    /\ history[histIdx] = Pathname \o Search \o HASH \o <<37, 69, 52, 37, 66, 56, 37, 65, 68>>
    /\ ev.scrollTo = <<500 - HeaderClearance>>

C6_NoRecomputationAfterDetach ==
    (ev.op = "timer" /\ ev.inst \notin scrollListeners) => ev.recomputed = 0

\* C7: while mounted at most one scroll listener and at most one click listener per
\* anchor of this component are registered, and after unmount none.
C7_ListenersFollowMount ==
    IF mounted
    THEN /\ Cardinality(scrollListeners) <= 1
         /\ \A a \in Anchors : Cardinality(clickListeners[a]) <= 1
    ELSE /\ scrollListeners = {}
         /\ \A a \in Anchors : clickListeners[a] = {}

\* C8: no exception leaves the click listener, the scroll listener, its timer or the
\* immediate call of the effect.
C8_NoExceptionLeavesListener == ev.threw = 0

\* C9: the row's alignment is 'space-between' with both siblings, 'flex-end' with only
\* the next one and 'flex-start' otherwise, and the row is rendered exactly when a
\* sibling exists.
C9_NavAlignment ==
    LET hasPrev == prevSlug \in {<<"/s">>}
        hasNext == nextSlug \in {<<"/s">>}
    IN  /\ view.justifyContent =
               (IF hasPrev /\ hasNext THEN "space-between"
                ELSE IF hasNext THEN "flex-end"
                ELSE "flex-start")
        /\ view.rendered = (hasPrev \/ hasNext)

C9_Witness ==
    /\ ev.op = "render"
    /\ prevSlug = <<"">> /\ nextSlug = <<"/s">>
    /\ view.rendered /\ view.justifyContent = "flex-end"

\* C10: every run of the effect recomputes the active anchor exactly once, at once and
\* with no scroll event; every other recomputation is applied to a scroll event.
C10_ImmediateThenOnScroll ==
    /\ ev.op = "attach" => (ev.invoked = << <<>> >> /\ ev.recomputed = 1)
    /\ ev.op # "attach" => \A k \in DOMAIN ev.invoked : ev.invoked[k] = <<"scroll">>

C10_Witness ==
    /\ ev.op = "timer" /\ ev.invoked = << <<"scroll">> >>
    /\ nInst = MaxRenders /\ ev.inst = nInst
====
